---- MODULE Spec2Model ----
(***************************************************************************)
(* Model of the privacy-policy scraper: src/main.py and src/new_main.py.   *)
(* The repository holds two implementations of the same pipeline; the      *)
(* variable impl says which one a run executes ("main" is src/main.py,     *)
(* "new_main" is src/new_main.py) and every operator that differs between  *)
(* the two takes impl as its first argument.                               *)
(*                                                                         *)
(* Strings of URLs, hrefs and anchor texts are sequences of one-character  *)
(* strings.  Page texts are run-length encoded: a sequence of runs         *)
(* [c |-> character, n |-> repetitions], adjacent runs holding different   *)
(* characters, so that a text of 50,001 characters is one run.             *)
(***************************************************************************)
EXTENDS Integers, Sequences, FiniteSets, TLC

(***************************************************************************)
(* Characters and strings                                                  *)
(***************************************************************************)
NL == "\n"
SP == " "
Whitespace == {SP, NL, "\t"}

UpperCase == <<"A","B","C","D","E","F","G","H","I","J","K","L","M",
               "N","O","P","Q","R","S","T","U","V","W","X","Y","Z">>
LowerCase == <<"a","b","c","d","e","f","g","h","i","j","k","l","m",
               "n","o","p","q","r","s","t","u","v","w","x","y","z">>

\* str.lower() on one character
LowerChar(c) ==
    IF \E k \in 1..26 : UpperCase[k] = c
    THEN LowerCase[CHOOSE k \in 1..26 : UpperCase[k] = c]
    ELSE c

\* str.lower()
lower(s) == [i \in 1..Len(s) |-> LowerChar(s[i])]

\* str.capitalize(): first character upper-cased, the rest lower-cased
capitalize(s) ==
    [i \in 1..Len(s) |->
        IF i = 1 /\ \E k \in 1..26 : LowerCase[k] = s[i]
        THEN UpperCase[CHOOSE k \in 1..26 : LowerCase[k] = s[i]]
        ELSE IF i = 1 THEN s[i] ELSE LowerChar(s[i])]

\* str.startswith(p)
StartsWith(s, p) == Len(s) >= Len(p) /\ SubSeq(s, 1, Len(p)) = p

\* p occurs in s as a substring (re.search of a literal)
Contains(s, p) ==
    \E i \in 1..(Len(s) - Len(p) + 1) : SubSeq(s, i, i + Len(p) - 1) = p

RECURSIVE LStripStr(_)
LStripStr(s) ==
    IF s # <<>> /\ s[1] \in Whitespace THEN LStripStr(Tail(s)) ELSE s

RECURSIVE RStripStr(_)
RStripStr(s) ==
    IF s # <<>> /\ s[Len(s)] \in Whitespace
    THEN RStripStr(SubSeq(s, 1, Len(s) - 1)) ELSE s

\* get_text(strip=True) of an anchor holding one text node
StripStr(s) == RStripStr(LStripStr(s))

W_http  == <<"h","t","t","p",":","/","/">>
W_https == <<"h","t","t","p","s",":","/","/">>
W_privacy    == <<"p","r","i","v","a","c","y">>
W_policy     == <<"p","o","l","i","c","y">>
W_statement  == <<"s","t","a","t","e","m","e","n","t">>
W_notice     == <<"n","o","t","i","c","e">>
W_data       == <<"d","a","t","a">>
W_protection == <<"p","r","o","t","e","c","t","i","o","n">>
W_legal      == <<"l","e","g","a","l">>
W_about      == <<"a","b","o","u","t">>
W_support    == <<"s","u","p","p","o","r","t">>
W_terms_and  == <<"t","e","r","m","s","-","a","n","d","-">>
Slash == <<"/">>
Dash  == <<"-">>

(***************************************************************************)
(* normalize_url                                                           *)
(***************************************************************************)
\* a normalizer that prepends the scheme whatever the input starts with
normalize_url_always(url) == W_https \o url

normalize_url(url) ==
    IF ~(StartsWith(url, W_http) \/ StartsWith(url, W_https))
    THEN W_https \o url
    ELSE url

(***************************************************************************)
(* The privacy patterns.  A pattern is either a literal (opt = FALSE, the  *)
(* literal is a) or a [_-]? b (opt = TRUE).                                *)
(***************************************************************************)
Lit(a)    == [a |-> a, b |-> <<>>, opt |-> FALSE]
Opt(a, b) == [a |-> a, b |-> b, opt |-> TRUE]

privacy_patterns(i) ==
    IF i = "main"
    THEN << Opt(W_privacy, W_policy),
            Opt(W_privacy, W_statement),
            Opt(W_privacy, W_notice),
            Opt(W_data, W_protection),
            Lit(W_privacy),
            Lit(W_legal \o Slash \o W_privacy),
            Lit(W_about \o Slash \o W_privacy),
            Lit(W_support \o Slash \o W_privacy) >>
    ELSE << Lit(W_privacy),
            Opt(W_data, W_protection),
            Lit(W_legal \o Slash \o W_privacy) >>

\* re.search(pattern, s)
re_search(pat, s) ==
    IF pat.opt
    THEN \/ Contains(s, pat.a \o pat.b)
         \/ Contains(s, pat.a \o <<"_">> \o pat.b)
         \/ Contains(s, pat.a \o <<"-">> \o pat.b)
    ELSE Contains(s, pat.a)

(***************************************************************************)
(* urljoin(base, href) for a base of the form scheme://host[/path] and an  *)
(* href that is empty, absolute (http:// or https://), scheme-relative     *)
(* (//host/..), root-relative (/..), a fragment or query (#.., ?..) or a   *)
(* plain relative path without dot segments.                               *)
(***************************************************************************)
SchemeLen(base) == IF StartsWith(base, W_https) THEN 8 ELSE 7

\* index of the first "/" after the host, Len(base) + 1 when there is none
HostEnd(base) ==
    IF \E j \in (SchemeLen(base) + 1)..Len(base) : base[j] = "/"
    THEN CHOOSE j \in (SchemeLen(base) + 1)..Len(base) :
            /\ base[j] = "/"
            /\ \A h \in (SchemeLen(base) + 1)..(j - 1) : base[h] # "/"
    ELSE Len(base) + 1

Origin(base) == SubSeq(base, 1, HostEnd(base) - 1)

\* the path of base up to and including its last "/" ("/" for an empty path)
BaseDir(base) ==
    LET path == SubSeq(base, HostEnd(base), Len(base)) IN
    IF path = <<>> THEN Slash
    ELSE SubSeq(path, 1, CHOOSE j \in 1..Len(path) :
                            /\ path[j] = "/"
                            /\ \A h \in (j + 1)..Len(path) : path[h] # "/")

urljoin(base, href) ==
    IF href = <<>> THEN base
    ELSE IF StartsWith(href, W_http) \/ StartsWith(href, W_https) THEN href
    ELSE IF StartsWith(href, <<"/", "/">>)
         THEN SubSeq(base, 1, SchemeLen(base) - 2) \o href
    ELSE IF href[1] = "/" THEN Origin(base) \o href
    ELSE IF href[1] \in {"#", "?"} THEN base \o href
    ELSE Origin(base) \o BaseDir(base) \o href

(***************************************************************************)
(* HTTP.  A response is [err, status_code]: err is a transport error       *)
(* (connection failure, timeout), which requests raises as an exception.   *)
(***************************************************************************)
Resp(code) == [err |-> FALSE, status_code |-> code]
TransportError == [err |-> TRUE, status_code |-> 0]

\* session.get(...) followed by raise_for_status() did not raise
GetOK(r) == ~r.err /\ ~(r.status_code >= 400 /\ r.status_code < 600)

Req(m, url) == [m |-> m, url |-> url]

(***************************************************************************)
(* The URL resolver.  A site's web w is [home, anchors, head, pages]:      *)
(* home is the response to GET of the normalized site URL, anchors the     *)
(* <a href> elements of its body in document order (each [href, text]),    *)
(* head the response to HEAD of each candidate path, pages the policy      *)
(* pages by URL.  The resolver's value is [found, url, reqs, scanned]:     *)
(* reqs are the requests issued in order, scanned the number of anchors    *)
(* examined.                                                               *)
(***************************************************************************)
P_privacy        == Slash \o W_privacy
P_privacy_policy == Slash \o W_privacy \o Dash \o W_policy
P_privacy_stmt   == Slash \o W_privacy \o Dash \o W_statement
P_privacy_notice == Slash \o W_privacy \o Dash \o W_notice
P_legal_privacy  == Slash \o W_legal \o Slash \o W_privacy
P_about_privacy  == Slash \o W_about \o Slash \o W_privacy
P_support_privacy == Slash \o W_support \o Slash \o W_privacy
P_privacy_html   == Slash \o W_privacy \o <<".","h","t","m","l">>
P_privacy_php    == Slash \o W_privacy \o <<".","p","h","p">>
P_terms_privacy  == Slash \o W_terms_and \o W_privacy
P_legal_policy   == Slash \o W_legal \o Slash \o W_privacy \o Dash \o W_policy

\* src/main.py
common_paths ==
    << P_privacy_policy, P_privacy, P_privacy_stmt, P_privacy_notice,
       P_legal_privacy, P_about_privacy, P_support_privacy,
       P_privacy_html, P_privacy_php, P_terms_privacy, P_legal_policy >>

\* src/new_main.py
fallback_paths ==
    << P_privacy, P_privacy_policy, P_legal_privacy,
       P_privacy_html, P_privacy_php >>

AllPaths == {common_paths[k] : k \in 1..Len(common_paths)}

\* the anchor's lower-cased href or lower-cased visible text matches a pattern
AnchorMatches(pats, a) ==
    LET href == lower(a.href)
        text == lower(StripStr(a.text))
    IN \E k \in 1..Len(pats) : re_search(pats[k], href) \/ re_search(pats[k], text)

\* a resolver in which a later matching anchor overrides an earlier one
ScanAnchorsLast(pats, anchors, i) ==
    LET m == {k \in i..Len(anchors) : AnchorMatches(pats, anchors[k])} IN
    IF m = {} THEN 0 ELSE CHOOSE k \in m : \A h \in m : k >= h

\* a resolver whose loops are nested the other way round: for each pattern
\* in list order, the first anchor at or after i that the pattern matches
ScanAnchorsPatternMajor(pats, anchors, i) ==
    LET Hit(p, a) == re_search(p, lower(a.href)) \/ re_search(p, lower(StripStr(a.text)))
        hits == {k \in 1..Len(pats) : \E j \in i..Len(anchors) : Hit(pats[k], anchors[j])}
    IN IF hits = {} THEN 0
       ELSE LET k == CHOOSE k \in hits : \A h \in hits : k <= h
                m == {j \in i..Len(anchors) : Hit(pats[k], anchors[j])}
            IN CHOOSE j \in m : \A h \in m : j <= h

\* for a in soup.find_all("a", href=True): index of the first matching
\* anchor at or after i, 0 when none matches
RECURSIVE ScanAnchors(_, _, _)
ScanAnchors(pats, anchors, i) ==
    IF i > Len(anchors) THEN 0
    ELSE IF AnchorMatches(pats, anchors[i]) THEN i
    ELSE ScanAnchors(pats, anchors, i + 1)

NotFound(reqs, scanned) ==
    [found |-> FALSE, url |-> <<>>, reqs |-> reqs, scanned |-> scanned]
Found(url, reqs, scanned) ==
    [found |-> TRUE, url |-> url, reqs |-> reqs, scanned |-> scanned]

\* the HEAD probe of the k-th path "exists": no exception and status 200
ProbeHit(w, path) == ~w.head[path].err /\ w.head[path].status_code = 200

\* for path in paths: HEAD, return on the first 200, continue otherwise
RECURSIVE ProbePaths(_, _, _, _, _)
ProbePaths(paths, base, w, k, reqs) ==
    IF k > Len(paths) THEN NotFound(reqs, Len(w.anchors))
    ELSE LET test_url == urljoin(base, paths[k])
             sent == Append(reqs, Req("HEAD", test_url))
         IN IF ProbeHit(w, paths[k])
            THEN Found(test_url, sent, Len(w.anchors))
            ELSE ProbePaths(paths, base, w, k + 1, sent)

\* the resolver of both files, over the file's pattern and path lists
ResolveWith(pats, paths, site, w) ==
    LET base_url == normalize_url(site)
        get == <<Req("GET", base_url)>>
    IN IF ~GetOK(w.home) THEN NotFound(get, 0)
       ELSE LET k == ScanAnchors(pats, w.anchors, 1) IN
            IF k # 0
            THEN Found(urljoin(base_url, w.anchors[k].href), get, k)
            ELSE ProbePaths(paths, base_url, w, 1, get)

\* src/main.py
find_privacy_policy_url(site, w) ==
    ResolveWith(privacy_patterns("main"), common_paths, site, w)

\* src/new_main.py
find_policy_url(site, w) ==
    ResolveWith(privacy_patterns("new_main"), fallback_paths, site, w)

Resolve(i, site, w) ==
    IF i = "main" THEN find_privacy_policy_url(site, w)
    ELSE find_policy_url(site, w)

(***************************************************************************)
(* Page texts, run-length encoded                                          *)
(***************************************************************************)
Run(c, n) == [c |-> c, n |-> n]

RECURSIVE TLen(_)
\* len(text)
TLen(t) == IF t = <<>> THEN 0 ELSE t[1].n + TLen(Tail(t))

\* a + b, adjacent runs of one character merged
TConcat(a, b) ==
    IF a = <<>> THEN b
    ELSE IF b = <<>> THEN a
    ELSE IF a[Len(a)].c = b[1].c
         THEN SubSeq(a, 1, Len(a) - 1)
                \o <<Run(b[1].c, a[Len(a)].n + b[1].n)>> \o Tail(b)
         ELSE a \o b

RECURSIVE TPrefix(_, _)
\* text[:k]
TPrefix(t, k) ==
    IF k <= 0 \/ t = <<>> THEN <<>>
    ELSE IF t[1].n >= k THEN <<Run(t[1].c, k)>>
    ELSE <<t[1]>> \o TPrefix(Tail(t), k - t[1].n)

RECURSIVE TSuffix(_, _)
\* the last k characters of text
TSuffix(t, k) ==
    IF k <= 0 \/ t = <<>> THEN <<>>
    ELSE IF t[Len(t)].n >= k THEN <<Run(t[Len(t)].c, k)>>
    ELSE TSuffix(SubSeq(t, 1, Len(t) - 1), k - t[Len(t)].n) \o <<t[Len(t)]>>

RECURSIVE FromChars(_)
\* the text of a sequence of characters
FromChars(s) ==
    IF s = <<>> THEN <<>> ELSE TConcat(<<Run(s[1], 1)>>, FromChars(Tail(s)))

IsWs(c) == c \in Whitespace

RECURSIVE TLStrip(_)
TLStrip(t) == IF t # <<>> /\ IsWs(t[1].c) THEN TLStrip(Tail(t)) ELSE t

RECURSIVE TRStrip(_)
TRStrip(t) ==
    IF t # <<>> /\ IsWs(t[Len(t)].c)
    THEN TRStrip(SubSeq(t, 1, Len(t) - 1)) ELSE t

\* text.strip()
TStrip(t) == TRStrip(TLStrip(t))

\* number of leading runs of t that are whitespace
RECURSIVE WsRuns(_)
WsRuns(t) == IF t # <<>> /\ IsWs(t[1].c) THEN 1 + WsRuns(Tail(t)) ELSE 0

\* "\n".join(texts)
RECURSIVE JoinNL(_)
JoinNL(ts) ==
    IF ts = <<>> THEN <<>>
    ELSE IF Len(ts) = 1 THEN ts[1]
    ELSE TConcat(TConcat(ts[1], <<Run(NL, 1)>>), JoinNL(Tail(ts)))

\* re.sub(r'\n\s*\n', '\n\n', text): in each maximal block of whitespace the
\* leftmost match starts at the block's first newline and, \s* being greedy,
\* ends at its last newline; what is left of the block holds no newline.
RECURSIVE SubBlankLines(_)
SubBlankLines(t) ==
    IF t = <<>> THEN <<>>
    ELSE IF ~IsWs(t[1].c) THEN <<t[1]>> \o SubBlankLines(Tail(t))
    ELSE LET k    == WsRuns(t)
             nls  == {j \in 1..k : t[j].c = NL}
             rest == SubBlankLines(SubSeq(t, k + 1, Len(t)))
         IN IF nls = {} THEN SubSeq(t, 1, k) \o rest
            ELSE LET f == CHOOSE j \in nls : \A h \in nls : j <= h
                     l == CHOOSE j \in nls : \A h \in nls : j >= h
                 IN IF f < l \/ t[f].n >= 2
                    THEN SubSeq(t, 1, f - 1) \o <<Run(NL, 2)>>
                            \o SubSeq(t, l + 1, k) \o rest
                    ELSE SubSeq(t, 1, k) \o rest

\* re.sub(r'\s+', ' ', text): every maximal block of whitespace becomes one space
RECURSIVE SubSpaces(_)
SubSpaces(t) ==
    IF t = <<>> THEN <<>>
    ELSE IF ~IsWs(t[1].c) THEN <<t[1]>> \o SubSpaces(Tail(t))
    ELSE <<Run(SP, 1)>> \o SubSpaces(SubSeq(t, WsRuns(t) + 1, Len(t)))

\* re.sub(r'\n{2,}', '\n\n', text): every run of two or more newlines becomes two
SubNewlines(t) ==
    [j \in 1..Len(t) |-> IF t[j].c = NL /\ t[j].n >= 2 THEN Run(NL, 2) ELSE t[j]]

MaxChars == 50000

\* src/main.py: "... [Content truncated]"
MarkerContentTruncated ==
    FromChars(<<".",".","."," ","[","C","o","n","t","e","n","t"," ",
                "t","r","u","n","c","a","t","e","d","]">>)

\* src/new_main.py: "... [Truncated]"
MarkerTruncated ==
    FromChars(<<".",".","."," ","[","T","r","u","n","c","a","t","e","d","]">>)

\* src/main.py: the clean-up of the candidate content
CleanMain(content_text) == SubSpaces(SubBlankLines(content_text))

\* src/main.py: if len(content_text) > 50000: content_text[:50000] + marker
TruncateMain(content_text) ==
    IF TLen(content_text) > MaxChars
    THEN TConcat(TPrefix(content_text, MaxChars), MarkerContentTruncated)
    ELSE content_text

\* src/new_main.py: cleaned = re.sub(...).strip()
CleanNew(content) == TStrip(SubNewlines(content))

\* src/new_main.py: cleaned[:50000] + ("... [Truncated]" if len(cleaned) > 50000 else "")
TruncateNew(cleaned) ==
    TConcat(TPrefix(cleaned, MaxChars),
            IF TLen(cleaned) > MaxChars THEN MarkerTruncated ELSE <<>>)

Clean(i, t) == IF i = "main" THEN CleanMain(t) ELSE CleanNew(t)

(***************************************************************************)
(* The content extractor.  A policy page is [resp, sel, blocks]: resp the  *)
(* response to its GET, sel the texts (get_text(separator="\n",            *)
(* strip=True)) of the elements each selector matches, in document order,  *)
(* blocks the elements find_all returns for the fallback, each [tag, text] *)
(* with text its get_text(strip=True); both are taken after the unwanted   *)
(* elements were decomposed.  The extractor's value is [ok, v]: ok = FALSE *)
(* stands for None.                                                        *)
(***************************************************************************)
None    == [ok |-> FALSE, v |-> <<>>]
Some(t) == [ok |-> TRUE, v |-> t]

\* src/main.py
content_selectors ==
    << "main", "[role=main]", ".main-content", ".content", ".policy-content",
       ".privacy-policy", ".legal-content", "article", ".container" >>

\* src/new_main.py
selectors == << "main", "[role=main]", ".content", ".policy-content", "article" >>

AllSelectors == {content_selectors[k] : k \in 1..Len(content_selectors)}

FallbackTagsMain ==
    {"p", "div", "span", "article", "section",
     "h1", "h2", "h3", "h4", "h5", "h6", "li"}
FallbackTagsNew == {"p", "div", "span", "section"}

\* for element in elements: if len(text) > len(content): content = text
RECURSIVE Longest(_, _)
Longest(elements, content) ==
    IF elements = <<>> THEN content
    ELSE Longest(Tail(elements),
                 IF TLen(elements[1]) > TLen(content) THEN elements[1] ELSE content)

\* src/main.py: the first selector with elements decides, then break
RECURSIVE SelectMain(_, _)
SelectMain(page, k) ==
    IF k > Len(content_selectors) THEN <<>>
    ELSE IF page.sel[content_selectors[k]] # <<>>
         THEN Longest(page.sel[content_selectors[k]], <<>>)
         ELSE SelectMain(page, k + 1)

\* src/new_main.py: break only once content is non-empty
RECURSIVE SelectNew(_, _, _)
SelectNew(page, k, content) ==
    IF k > Len(selectors) THEN content
    ELSE LET c == Longest(page.sel[selectors[k]], content) IN
         IF c # <<>> THEN c ELSE SelectNew(page, k + 1, c)

RECURSIVE FallbackTexts(_, _)
\* the non-empty texts of the blocks whose tag is in tags
FallbackTexts(tags, blocks) ==
    IF blocks = <<>> THEN <<>>
    ELSE (IF blocks[1].tag \in tags /\ blocks[1].text # <<>>
          THEN <<blocks[1].text>> ELSE <<>>)
         \o FallbackTexts(tags, Tail(blocks))

ContentMain(page) ==
    LET content_text == SelectMain(page, 1) IN
    IF content_text = <<>>
    THEN JoinNL(FallbackTexts(FallbackTagsMain, page.blocks))
    ELSE content_text

ContentNew(page) ==
    LET content == SelectNew(page, 1, <<>>) IN
    IF content = <<>>
    THEN JoinNL(FallbackTexts(FallbackTagsNew, page.blocks))
    ELSE content

\* src/main.py
get_policy_text(page) ==
    IF ~GetOK(page.resp) THEN None
    ELSE Some(TruncateMain(CleanMain(ContentMain(page))))

\* src/new_main.py
extract_policy_text(page) ==
    IF ~GetOK(page.resp) THEN None
    ELSE Some(TruncateNew(CleanNew(ContentNew(page))))

Extract(i, page) ==
    IF i = "main" THEN get_policy_text(page) ELSE extract_policy_text(page)

\* the policy page a site's web serves at url; an unknown URL does not answer
PageAt(w, url) ==
    IF \E k \in 1..Len(w.pages) : w.pages[k].url = url
    THEN w.pages[CHOOSE k \in 1..Len(w.pages) : w.pages[k].url = url].page
    ELSE [resp |-> TransportError, sel |-> [x \in AllSelectors |-> <<>>],
          blocks |-> <<>>]

(***************************************************************************)
(* The site worker's result                                                *)
(***************************************************************************)
MinChars == 100

\* src/main.py: if text and len(text.strip()) > 100
Meaningful(text) ==
    text.ok /\ text.v # <<>> /\ TLen(TStrip(text.v)) > MinChars

\* src/new_main.py: if not text or len(text.strip()) < 100
TooShort(text) ==
    ~text.ok \/ text.v = <<>> \/ TLen(TStrip(text.v)) < MinChars

\* the registrable domain of a site of the form [scheme://]labels[/path],
\* its public suffix being the last label
RegistrableDomain(site) ==
    LET noscheme == IF StartsWith(site, W_https) THEN SubSeq(site, 9, Len(site))
                    ELSE IF StartsWith(site, W_http) THEN SubSeq(site, 8, Len(site))
                    ELSE site
        slashes  == {j \in 1..Len(noscheme) : noscheme[j] = "/"}
        host     == IF slashes = {} THEN noscheme
                    ELSE SubSeq(noscheme, 1,
                                (CHOOSE j \in slashes : \A h \in slashes : j <= h) - 1)
        dots     == {j \in 1..Len(host) : host[j] = "."}
    IN IF dots = {} THEN host
       ELSE LET last == CHOOSE j \in dots : \A h \in dots : j >= h
                prev == {j \in dots : j < last}
                from == IF prev = {} THEN 1
                        ELSE (CHOOSE j \in prev : \A h \in prev : j >= h) + 1
            IN SubSeq(host, from, last - 1)

\* tldextract.extract(site).domain.capitalize()
Company(site) == capitalize(RegistrableDomain(site))

\* _result(company, site, url, text, status); a status is the sequence of
\* the pieces of its string: <<"success">>, <<"error: ", message>>
Result(company, site, url, text, status) ==
    [company |-> company, site |-> site, policy_url |-> url,
     text |-> text, status |-> status]

\* a worker that keeps the text it judged too short
ResultMainKeepsText(company, site, res, text) ==
    IF res.found /\ res.url # <<>>
    THEN Result(company, site, res.url, text.v,
                IF Meaningful(text) THEN <<"success">>
                ELSE <<"text_extraction_failed">>)
    ELSE Result(company, site, <<>>, <<>>, <<"policy_not_found">>)

\* src/main.py lines 167-195
ResultMain(company, site, res, text) ==
    IF res.found /\ res.url # <<>>
    THEN IF Meaningful(text)
         THEN Result(company, site, res.url, text.v, <<"success">>)
         ELSE Result(company, site, res.url, <<>>, <<"text_extraction_failed">>)
    ELSE Result(company, site, <<>>, <<>>, <<"policy_not_found">>)

\* src/new_main.py lines 110-117
ResultNew(company, site, res, text) ==
    IF ~(res.found /\ res.url # <<>>)
    THEN Result(company, site, <<>>, <<>>, <<"not_found">>)
    ELSE IF TooShort(text)
         THEN Result(company, site, res.url, <<>>, <<"text_too_short">>)
         ELSE Result(company, site, res.url, text.v, <<"success">>)

WorkerResult(i, company, site, res, text) ==
    IF i = "main" THEN ResultMain(company, site, res, text)
    ELSE ResultNew(company, site, res, text)

(***************************************************************************)
(* The web the batch runs against: a fixed mapping from site to responses. *)
(***************************************************************************)
site_a == <<"a",".","c","o","m">>
site_b == W_https \o <<"b",".","o","r","g">>
site_c == <<"c",".","n","e","t">>
site_d == <<"d",".","i","o">>
site_e == W_http \o <<"e",".","e","u">>

\* the sites of the batch's input list
Websites == {site_a, site_b, site_c, site_d}

Anchor(href, text) == [href |-> href, text |-> text]
PageEntry(url, page) == [url |-> url, page |-> page]
NoMatch == [x \in AllSelectors |-> <<>>]
AllMissing == [p \in AllPaths |-> Resp(404)]

\* a page answering 200 whose selector sel matches elements with these texts
PageSel(sel, texts) ==
    [resp |-> Resp(200), sel |-> [x \in AllSelectors |-> IF x = sel THEN texts ELSE <<>>],
     blocks |-> <<>>]

\* a page answering 200 that no selector matches
PageBlocks(blocks) == [resp |-> Resp(200), sel |-> NoMatch, blocks |-> blocks]

T_about == <<"A","b","o","u","t">>

\* two anchors match; the first has a mixed-case href; a policy of 500 characters
Web_a ==
    [home    |-> Resp(200),
     anchors |-> << Anchor(Slash \o lower(T_about), T_about),
                    Anchor(<<"/","L","e","g","a","l","/","P","r","i","v","a","c","y">>,
                           <<"T","e","r","m","s">>),
                    Anchor(P_privacy, <<"P","r","i","v","a","c","y">>) >>,
     head    |-> AllMissing,
     pages   |-> << PageEntry(normalize_url(site_a)
                                \o <<"/","L","e","g","a","l","/","P","r","i","v","a","c","y">>,
                              PageSel("main", << <<Run("x", 200), Run(NL, 3), Run("y", 297)>>,
                                                 <<Run("z", 10)>> >>)) >> ]

\* the anchor matches on its text only; a policy of exactly 100 characters
Web_b ==
    [home    |-> Resp(200),
     anchors |-> << Anchor(<<"/","l","e","g","a","l">>,
                           <<" ","D","a","t","a","-","P","r","o","t","e","c","t","i","o","n"," ">>) >>,
     head    |-> AllMissing,
     pages   |-> << PageEntry(site_b \o <<"/","l","e","g","a","l">>,
                              PageSel("article", << <<Run("x", 60), Run(SP, 1), Run("y", 39)>> >>)) >> ]

\* the homepage does not answer, although /privacy exists
Web_c ==
    [home    |-> TransportError,
     anchors |-> << Anchor(P_privacy, <<>>) >>,
     head    |-> [p \in AllPaths |-> IF p = P_privacy THEN Resp(200) ELSE Resp(404)],
     pages   |-> << PageEntry(normalize_url(site_c) \o P_privacy,
                              PageSel("main", << <<Run("x", 300)>> >>)) >> ]

\* no anchor matches; the probes of /privacy and /privacy-policy fail in
\* transport; /privacy-statement answers HEAD with 200 but its page answers
\* GET with 404; /legal/privacy serves 99 characters in blocks
Web_d ==
    [home    |-> Resp(200),
     anchors |-> << Anchor(Slash \o lower(T_about), T_about) >>,
     head    |-> [p \in AllPaths |->
                    IF p \in {P_privacy, P_privacy_policy} THEN TransportError
                    ELSE IF p \in {P_privacy_stmt, P_legal_privacy} THEN Resp(200)
                    ELSE Resp(404)],
     pages   |-> << PageEntry(normalize_url(site_d) \o P_legal_privacy,
                              PageBlocks(<< [tag |-> "p", text |-> <<Run("x", 50)>>],
                                            [tag |-> "p", text |-> <<>>],
                                            [tag |-> "div", text |-> <<Run("y", 48)>>] >>)),
                    PageEntry(normalize_url(site_d) \o P_privacy_stmt,
                              [resp |-> Resp(404), sel |-> NoMatch, blocks |-> <<>>]) >> ]

Web(site) ==
    CASE site = site_a -> Web_a
      [] site = site_b -> Web_b
      [] site = site_c -> Web_c
      [] site = site_d -> Web_d

(***************************************************************************)
(* The batch run: the coordinator (scrape_privacy_policies / scrape_all)   *)
(* and one worker task per site (scrape_single_site / scrape_site) in a    *)
(* ThreadPoolExecutor of max_workers threads.                              *)
(***************************************************************************)
MaxSites   == 2
MaxWorkers == 2

Impls == {"main", "new_main"}

\* the delay ranges a scraper is constructed with; a draw of
\* random.uniform(lo, hi) is an integer of lo..hi here
DelayRanges == { <<1, 2>>, <<-1, 1>> }

SleepMsg   == "sleep length must be non-negative"
ExtractMsg == "tldextract failed"

VARIABLES
    impl,                \* which file runs
    delay_range,         \* self.delay_range
    max_workers,         \* self.max_workers
    sites,               \* websites / sites: the input list
    task,                \* the futures, by position in sites
    collected,           \* the futures as_completed has yielded
    results,             \* the coordinator's results list
    successful_scrapes,  \* src/main.py's counter
    sink,                \* what save_results / save_csv was called with
    coord,               \* where the coordinator is
    coord_exc,           \* the exception the coordinator ended with
    rcall,               \* a call of the resolver alone
    xcall                \* a call of the extractor alone

vars == << impl, delay_range, max_workers, sites, task, collected, results,
           successful_scrapes, sink, coord, coord_exc, rcall, xcall >>

Idle == [fn |-> "none"]

NewTask ==
    [pc |-> "queued", company |-> <<>>, res |-> NotFound(<<>>, 0),
     text |-> None, reqs |-> <<>>, exc |-> <<>>, ret |-> <<>>]

N == Len(sites)

Init ==
    /\ impl \in Impls
    /\ delay_range \in DelayRanges
    /\ max_workers \in {1, MaxWorkers}
    /\ sites \in UNION {[1..n -> Websites] : n \in 0..MaxSites}
    /\ task = <<>>
    /\ collected = {}
    /\ results = <<>>
    /\ successful_scrapes = 0
    /\ sink = <<>>
    /\ coord = "start"
    /\ coord_exc = <<>>
    /\ rcall = Idle
    /\ xcall = Idle

\* what the resolver returns for each site of the input list, and what the
\* extractor returns for the URL resolved; both are functions of the site's
\* web alone
SiteResolution ==
    [i \in Impls |-> [site \in Websites |-> Resolve(i, site, Web(site))]]
SiteText ==
    [i \in Impls |-> [site \in Websites |->
        [url \in {SiteResolution[i][site].url} |->
            Extract(i, PageAt(Web(site), url))]]]

Active == {"sleep", "derive", "resolve", "extract", "handler"}
Terminal == {"done", "raised"}

Running == {j \in DOMAIN task : task[j].pc \in Active}

\* an exception raised in the worker's body: caught by the worker's handler
\* where the raising line is inside its try, raised from the task otherwise
Caught(i, t, msg)   == [t EXCEPT !.pc = "handler", !.exc = <<msg>>]
Uncaught(i, t, msg) == [t EXCEPT !.pc = "raised", !.exc = <<msg>>]

\* executor.submit for every site
Submit ==
    /\ coord = "start"
    /\ task' = [j \in 1..N |-> NewTask]
    /\ coord' = "collect"
    /\ UNCHANGED << impl, delay_range, max_workers, sites, collected, results,
                    successful_scrapes, sink, coord_exc, rcall, xcall >>

WorkerFrame ==
    UNCHANGED << impl, delay_range, max_workers, sites, collected, results,
                 successful_scrapes, sink, coord, coord_exc, rcall, xcall >>

\* a pool that starts a queued task whatever the number of running ones
StartUnbounded(i) ==
    /\ i \in DOMAIN task
    /\ task[i].pc = "queued"
    /\ \A j \in 1..(i - 1) : task[j].pc # "queued"
    /\ task' = [task EXCEPT ![i].pc = "sleep"]
    /\ WorkerFrame

\* a pool thread takes the oldest queued task
Start(i) ==
    /\ i \in DOMAIN task
    /\ task[i].pc = "queued"
    /\ \A j \in 1..(i - 1) : task[j].pc # "queued"
    /\ Cardinality(Running) < max_workers
    /\ task' = [task EXCEPT ![i].pc = "sleep"]
    /\ WorkerFrame

\* time.sleep(random.uniform(*self.delay_range)): inside the try in
\* src/main.py (line 161), before it in src/new_main.py (line 104)
AfterSleep(i, t, d) ==
    IF d < 0
    THEN IF i = "main" THEN Caught(i, t, SleepMsg) ELSE Uncaught(i, t, SleepMsg)
    ELSE [t EXCEPT !.pc = "derive"]

Sleep(i) ==
    /\ i \in DOMAIN task
    /\ task[i].pc = "sleep"
    /\ \E d \in delay_range[1]..delay_range[2] :
          task' = [task EXCEPT ![i] = AfterSleep(impl, task[i], d)]
    /\ WorkerFrame

\* tldextract.extract(site).domain.capitalize(): inside the try in
\* src/main.py (line 163), before it in src/new_main.py (line 105)
AfterDerive(i, t, site, fault) ==
    IF fault
    THEN IF i = "main" THEN Caught(i, t, ExtractMsg) ELSE Uncaught(i, t, ExtractMsg)
    ELSE [t EXCEPT !.pc = "resolve", !.company = Company(site)]

Derive(i) ==
    /\ i \in DOMAIN task
    /\ task[i].pc = "derive"
    /\ \E fault \in BOOLEAN :
          task' = [task EXCEPT ![i] = AfterDerive(impl, task[i], sites[i], fault)]
    /\ WorkerFrame

\* policy_url = self.find_privacy_policy_url(site) and the branch on it
AfterResolve(i, t, site) ==
    LET res == SiteResolution[i][site] IN
    IF res.found /\ res.url # <<>>
    THEN [t EXCEPT !.pc = "extract", !.res = res, !.reqs = res.reqs]
    ELSE [t EXCEPT !.pc = "done", !.res = res, !.reqs = res.reqs,
                   !.ret = <<WorkerResult(i, t.company, site, res, None)>>]

\* a resolver that waits while any other worker is delaying
ResolveSiteSerialized(i) ==
    /\ i \in DOMAIN task
    /\ task[i].pc = "resolve"
    /\ \A j \in DOMAIN task : task[j].pc # "sleep"
    /\ task' = [task EXCEPT ![i] = AfterResolve(impl, task[i], sites[i])]
    /\ WorkerFrame

ResolveSite(i) ==
    /\ i \in DOMAIN task
    /\ task[i].pc = "resolve"
    /\ task' = [task EXCEPT ![i] = AfterResolve(impl, task[i], sites[i])]
    /\ WorkerFrame

\* an extraction that fetches the page a second time when the first GET failed
AfterExtractRetry(i, t, site) ==
    LET text == SiteText[i][site][t.res.url] IN
    [t EXCEPT !.pc = "done", !.text = text,
              !.reqs = IF text.ok THEN Append(t.reqs, Req("GET", t.res.url))
                       ELSE t.reqs \o <<Req("GET", t.res.url), Req("GET", t.res.url)>>,
              !.ret = <<WorkerResult(i, t.company, site, t.res, text)>>]

\* text = self.get_policy_text(policy_url) and the result built from it
AfterExtract(i, t, site) ==
    LET text == SiteText[i][site][t.res.url] IN
    [t EXCEPT !.pc = "done", !.text = text,
              !.reqs = Append(t.reqs, Req("GET", t.res.url)),
              !.ret = <<WorkerResult(i, t.company, site, t.res, text)>>]

ExtractSite(i) ==
    /\ i \in DOMAIN task
    /\ task[i].pc = "extract"
    /\ task' = [task EXCEPT ![i] = AfterExtract(impl, task[i], sites[i])]
    /\ WorkerFrame

\* except Exception as e: src/main.py calls tldextract again (line 200),
\* src/new_main.py uses the domain it already has (line 121)
AfterHandler(i, t, site, fault) ==
    IF i = "main" /\ fault
    THEN Uncaught(i, t, ExtractMsg)
    ELSE [t EXCEPT !.pc = "done",
            !.ret = <<Result(IF i = "main" THEN Company(site) ELSE t.company,
                             site, <<>>, <<>>, <<"error: ", t.exc[1]>>)>>]

Handler(i) ==
    /\ i \in DOMAIN task
    /\ task[i].pc = "handler"
    /\ \E fault \in BOOLEAN :
          task' = [task EXCEPT ![i] = AfterHandler(impl, task[i], sites[i], fault)]
    /\ WorkerFrame

CoordFrame == UNCHANGED << impl, delay_range, max_workers, sites, task, rcall, xcall >>

\* a collection whose append is lost when another future has completed and
\* is waiting to be collected
CollectMainLossy(t, site, fault) ==
    IF t.pc = "done"
    THEN /\ results' =
                IF \E j \in DOMAIN task :
                      j \notin collected /\ task[j] # t /\ task[j].pc \in Terminal
                THEN results ELSE Append(results, t.ret[1])
         /\ successful_scrapes' =
                IF t.ret[1].status = <<"success">>
                THEN successful_scrapes + 1 ELSE successful_scrapes
         /\ UNCHANGED << coord, coord_exc >>
    ELSE IF fault
    THEN /\ coord' = "unwinding"
         /\ coord_exc' = <<ExtractMsg>>
         /\ UNCHANGED << results, successful_scrapes >>
    ELSE /\ results' = Append(results,
                Result(Company(site), site, <<>>, <<>>, <<"exception: ", t.exc[1]>>))
         /\ UNCHANGED << successful_scrapes, coord, coord_exc >>

\* src/main.py lines 222-238: the coordinator's handling of one future
CollectMain(t, site, fault) ==
    IF t.pc = "done"
    THEN /\ results' = Append(results, t.ret[1])
         /\ successful_scrapes' =
                IF t.ret[1].status = <<"success">>
                THEN successful_scrapes + 1 ELSE successful_scrapes
         /\ UNCHANGED << coord, coord_exc >>
    ELSE IF fault
    THEN \* tldextract raises inside the except clause (line 233)
         /\ coord' = "unwinding"
         /\ coord_exc' = <<ExtractMsg>>
         /\ UNCHANGED << results, successful_scrapes >>
    ELSE /\ results' = Append(results,
                Result(Company(site), site, <<>>, <<>>, <<"exception: ", t.exc[1]>>))
         /\ UNCHANGED << successful_scrapes, coord, coord_exc >>

\* src/new_main.py line 140: results.append(future.result())
CollectNew(t, site, fault) ==
    IF t.pc = "done"
    THEN /\ results' = Append(results, t.ret[1])
         /\ UNCHANGED << successful_scrapes, coord, coord_exc >>
    ELSE \* future.result() raises the task's exception
         /\ coord' = "unwinding"
         /\ coord_exc' = t.exc
         /\ UNCHANGED << results, successful_scrapes >>

\* for future in as_completed(...): one completed future is handled
Collect(i) ==
    /\ coord = "collect"
    /\ i \in DOMAIN task
    /\ i \notin collected
    /\ task[i].pc \in Terminal
    /\ collected' = collected \cup {i}
    /\ \E fault \in BOOLEAN :
          IF impl = "main" THEN CollectMain(task[i], sites[i], fault)
          ELSE CollectNew(task[i], sites[i], fault)
    /\ UNCHANGED sink
    /\ CoordFrame

\* as_completed is exhausted and the with block exits
EndLoop ==
    /\ coord = "collect"
    /\ collected = DOMAIN task
    /\ coord' = "save"
    /\ UNCHANGED << collected, results, successful_scrapes, sink, coord_exc >>
    /\ CoordFrame

\* an exception leaves the with block: shutdown(wait=True) lets every
\* submitted task finish, then the exception leaves the batch run
Unwind ==
    /\ coord = "unwinding"
    /\ \A j \in DOMAIN task : task[j].pc \in Terminal
    /\ coord' = "aborted"
    /\ UNCHANGED << collected, results, successful_scrapes, sink, coord_exc >>
    /\ CoordFrame

\* self.save_results(results) / self.save_csv(results)
Save ==
    /\ coord = "save"
    /\ sink' = Append(sink, results)
    /\ coord' = IF impl = "main" THEN "summary" ELSE "returned"
    /\ UNCHANGED << collected, results, successful_scrapes, coord_exc >>
    /\ CoordFrame

\* src/main.py lines 244-250: the summary divides by len(websites)
Summary ==
    /\ coord = "summary"
    /\ IF N = 0
       THEN coord' = "aborted" /\ coord_exc' = <<"division by zero">>
       ELSE coord' = "returned" /\ UNCHANGED coord_exc
    /\ UNCHANGED << collected, results, successful_scrapes, sink >>
    /\ CoordFrame

Next ==
    \/ Submit
    \/ \E i \in 1..N : Start(i)
    \/ \E i \in 1..N : Sleep(i)
    \/ \E i \in 1..N : Derive(i)
    \/ \E i \in 1..N : ResolveSite(i)
    \/ \E i \in 1..N : ExtractSite(i)
    \/ \E i \in 1..N : Handler(i)
    \/ \E i \in 1..N : Collect(i)
    \/ EndLoop
    \/ Unwind
    \/ Save
    \/ Summary

Spec == Init /\ [][Next]_vars

(***************************************************************************)
(* The resolver alone: one call on a site and a web drawn from bounded     *)
(* sets.                                                                   *)
(***************************************************************************)
MaxAnchors == 2

A_about == Anchor(Slash \o lower(T_about), T_about)
A_legal == Anchor(<<"/","L","e","g","a","l","/","P","r","i","v","a","c","y","-","P","o","l","i","c","y">>,
                  <<"T","e","r","m","s">>)
A_text  == Anchor(<<"l","e","g","a","l",".","h","t","m","l">>,
                  <<" ","D","a","t","a","_","P","r","o","t","e","c","t","i","o","n"," ">>)
A_priv  == Anchor(P_privacy, <<"P","r","i","v","a","c","y">>)

AnchorPool == {A_about, A_legal, A_text, A_priv}

HomeResponses == {Resp(200), Resp(404), TransportError}
HeadResponses == {Resp(200), Resp(404), TransportError}

\* the candidate paths whose HEAD response varies; the others answer 404
VariedPaths == {P_privacy, P_privacy_policy, P_legal_privacy, P_legal_policy}

Heads ==
    {[p \in AllPaths |-> IF p \in VariedPaths THEN h[p] ELSE Resp(404)] :
        h \in [VariedPaths -> HeadResponses]}

ResolverSites == {site_a, site_e}

BatchIdle ==
    /\ delay_range = <<1, 2>>
    /\ max_workers = 1
    /\ sites = <<>>
    /\ task = <<>>
    /\ collected = {}
    /\ results = <<>>
    /\ successful_scrapes = 0
    /\ sink = <<>>
    /\ coord = "idle"
    /\ coord_exc = <<>>

InitResolver ==
    /\ impl \in Impls
    /\ BatchIdle
    /\ xcall = Idle
    /\ \E site \in ResolverSites, home \in HomeResponses, head \in Heads,
          anchors \in UNION {[1..n -> AnchorPool] : n \in 0..MaxAnchors} :
          rcall = [fn |-> "resolve", site |-> site, done |-> FALSE,
                   w |-> [home |-> home, anchors |-> anchors, head |-> head,
                          pages |-> <<>>],
                   ret |-> NotFound(<<>>, 0)]

CallResolver ==
    /\ rcall.fn = "resolve"
    /\ ~rcall.done
    /\ rcall' = [rcall EXCEPT !.done = TRUE,
                              !.ret = Resolve(impl, rcall.site, rcall.w)]
    /\ UNCHANGED << impl, delay_range, max_workers, sites, task, collected,
                    results, successful_scrapes, sink, coord, coord_exc, xcall >>

SpecResolver == InitResolver /\ [][CallResolver]_vars

(***************************************************************************)
(* The extractor alone: one call on a page drawn from bounded sets.        *)
(***************************************************************************)
Slack == 2
MaxElements == 2

\* texts around the 50,000 characters and short ones, with and without
\* inner and outer whitespace
LongTexts ==
    { TConcat(lead, TConcat(<<Run("x", len)>>, tail)) :
        lead \in {<<>>, <<Run(SP, 1)>>},
        len  \in (MaxChars - Slack)..(MaxChars + Slack),
        tail \in {<<>>, <<Run(NL, 3), Run("y", 1)>>, <<Run(NL, 1)>>} }

ShortTexts == { <<>>, <<Run("x", 3)>>, <<Run("x", 1), Run(NL, 2), Run(SP, 1), Run("y", 2)>> }

ExtractorPages ==
    { [resp |-> resp,
       sel  |-> [x \in AllSelectors |->
                    IF x = sel THEN els
                    ELSE IF x = later THEN << <<Run("z", 4)>> >> ELSE <<>>],
       blocks |-> blocks] :
        resp \in {Resp(200), Resp(500)},
        sel \in {"main", ".main-content", "article"},
        later \in {"none", "article", ".container"},
        els \in UNION {[1..n -> ShortTexts] : n \in 0..MaxElements}
                \cup {<<t>> : t \in LongTexts},
        blocks \in { <<>>,
                     << [tag |-> "p", text |-> <<Run("x", 3)>>],
                        [tag |-> "li", text |-> <<Run("y", 2)>>] >> } }

InitExtractor ==
    /\ impl \in Impls
    /\ BatchIdle
    /\ rcall = Idle
    /\ \E page \in ExtractorPages :
          xcall = [fn |-> "extract", page |-> page, done |-> FALSE,
                   content |-> <<>>, cleaned |-> <<>>, ret |-> None]

Content(i, page) == IF i = "main" THEN ContentMain(page) ELSE ContentNew(page)

CallExtractor ==
    /\ xcall.fn = "extract"
    /\ ~xcall.done
    /\ xcall' = [xcall EXCEPT
                    !.done = TRUE,
                    !.content = IF GetOK(xcall.page.resp)
                                THEN Content(impl, xcall.page) ELSE <<>>,
                    !.cleaned = IF GetOK(xcall.page.resp)
                                THEN Clean(impl, Content(impl, xcall.page)) ELSE <<>>,
                    !.ret = Extract(impl, xcall.page)]
    /\ UNCHANGED << impl, delay_range, max_workers, sites, task, collected,
                    results, successful_scrapes, sink, coord, coord_exc, rcall >>

SpecExtractor == InitExtractor /\ [][CallExtractor]_vars

(***************************************************************************)
(* Claims                                                                  *)
(***************************************************************************)
Ended == coord \in {"returned", "aborted"}

\* rs holds exactly one result per position of the input list
OnePerSite(rs) ==
    /\ Len(rs) = N
    /\ \E p \in [1..N -> 1..N] :
          /\ \A a, b \in 1..N : p[a] = p[b] => a = b
          /\ \A a \in 1..N : rs[p[a]].site = sites[a]

\* the Result a finished worker returned
Returned(i) == task[i].pc = "done"
Ret(i) == task[i].ret[1]

\* C1: for any input list of N >= 0 sites and any fetch failures and worker
\* faults, the batch run returns exactly N results, one per input site.
C1_ExactlyOneResultPerSite ==
    Ended => (coord = "returned" /\ OnePerSite(results))

\* C2: a worker's Result has status success iff its text is non-empty with
\* trimmed length >= 100 and its policy URL is non-empty; an extracted text of
\* trimmed length exactly 100 yields success, a shorter, empty or failed
\* extraction does not.
C2_SuccessIffHundredChars ==
    \A i \in DOMAIN task : Returned(i) =>
        /\ (Ret(i).status = <<"success">>) <=>
              (/\ Ret(i).text # <<>>
               /\ TLen(TStrip(Ret(i).text)) >= MinChars
               /\ Ret(i).policy_url # <<>>)
        /\ (task[i].res.found /\ task[i].exc = <<>>) =>
              ((Ret(i).status = <<"success">>) <=>
                  (task[i].text.ok /\ TLen(TStrip(task[i].text.v)) >= MinChars))

\* C3: every fault raised while a worker processes a site becomes a Result
\* with status "error: <message>", empty policy URL and empty text; no
\* exception leaves a worker task and the coordinator never aborts on one.
C3_FaultsBecomeErrorResults ==
    /\ \A i \in DOMAIN task :
          /\ task[i].pc # "raised"
          /\ (task[i].exc # <<>> /\ task[i].pc \in Terminal) =>
                /\ Ret(i).status = <<"error: ", task[i].exc[1]>>
                /\ Ret(i).policy_url = <<>>
                /\ Ret(i).text = <<>>
    /\ coord # "unwinding"

\* C4: the batch run always completes: whenever it can take no further step,
\* every site has a terminal Result, the result set was handed to the sink
\* and the run returned normally, never by an abort.
C4_RunCompletes ==
    \/ ENABLED Next
    \/ /\ coord = "returned"
       /\ \A i \in DOMAIN task : Returned(i)
       /\ sink = <<results>>
       /\ Len(results) = N

\* the anchor's lower-cased href or lower-cased visible text matches one of
\* the running file's privacy patterns
ClaimMatch(a) ==
    \E k \in 1..Len(privacy_patterns(impl)) :
        \/ re_search(privacy_patterns(impl)[k], lower(a.href))
        \/ re_search(privacy_patterns(impl)[k], lower(StripStr(a.text)))

Resolved == rcall.fn = "resolve" /\ rcall.done
SomeAnchorMatches ==
    \E k \in 1..Len(rcall.w.anchors) : ClaimMatch(rcall.w.anchors[k])
FirstMatch ==
    CHOOSE k \in 1..Len(rcall.w.anchors) :
        /\ ClaimMatch(rcall.w.anchors[k])
        /\ \A j \in 1..(k - 1) : ~ClaimMatch(rcall.w.anchors[j])

\* C5: when the homepage GET succeeds and some anchor matches, the resolver
\* returns the href of the first matching anchor in document order, resolved
\* against the base URL, and issues no HEAD probe.
C5_FirstMatchingAnchorWins ==
    (Resolved /\ GetOK(rcall.w.home) /\ SomeAnchorMatches) =>
        /\ rcall.ret.found
        /\ rcall.ret.url = urljoin(normalize_url(rcall.site),
                                   rcall.w.anchors[FirstMatch].href)
        /\ \A q \in 1..Len(rcall.ret.reqs) : rcall.ret.reqs[q].m # "HEAD"

\* two anchors match, the later one is /privacy, /privacy also answers HEAD
\* with 200, and the first one's href was returned
C5_Witness ==
    /\ Resolved
    /\ rcall.site = site_a
    /\ rcall.w.home = Resp(200)
    /\ rcall.w.anchors = <<A_legal, A_priv>>
    /\ rcall.w.head[P_privacy] = Resp(200)
    /\ rcall.ret.url = W_https \o site_a \o A_legal.href

\* the candidate paths in the order the specification lists them
SpecPathOrder ==
    << P_privacy, P_privacy_policy, P_legal_privacy, P_privacy_html,
       P_privacy_php, P_privacy_stmt, P_privacy_notice, P_about_privacy,
       P_support_privacy, P_terms_privacy, P_legal_policy >>

\* the running file's candidate paths, in that order
ClaimedPaths ==
    LET own == IF impl = "main" THEN common_paths ELSE fallback_paths
        IsOwn(p) == \E k \in 1..Len(own) : own[k] = p
    IN SelectSeq(SpecPathOrder, IsOwn)

\* C6: when the homepage GET succeeds and no anchor matches, the candidate
\* paths are probed with HEAD in the order /privacy, /privacy-policy,
\* /legal/privacy, ...; the URL of the earliest path answering 200 is
\* returned, other answers and transport errors are skipped, nothing is
\* probed after the first 200, and NotFound is returned when none answers 200.
C6_ProbesInListedOrder ==
    (Resolved /\ GetOK(rcall.w.home) /\ ~SomeAnchorMatches) =>
        LET base  == normalize_url(rcall.site)
            hits  == {k \in 1..Len(ClaimedPaths) :
                        rcall.w.head[ClaimedPaths[k]] = Resp(200)}
            last  == IF hits = {} THEN Len(ClaimedPaths)
                     ELSE CHOOSE k \in hits : \A h \in hits : k <= h
            heads == SubSeq(rcall.ret.reqs, 2, Len(rcall.ret.reqs))
        IN /\ heads = [k \in 1..last |-> Req("HEAD", urljoin(base, ClaimedPaths[k]))]
           /\ rcall.ret.found <=> (hits # {})
           /\ rcall.ret.found => rcall.ret.url = urljoin(base, ClaimedPaths[last])

\* C7: if the initial GET of the normalized site URL fails, the resolver
\* returns NotFound at once, with no anchor scan and no HEAD probe, and the
\* site's Result has status policy_not_found, empty policy URL, empty text.
C7_HomeFailureIsNotFound ==
    \A i \in DOMAIN task :
        (task[i].reqs # <<>> /\ ~GetOK(Web(sites[i]).home)) =>
            /\ task[i].reqs = <<Req("GET", normalize_url(sites[i]))>>
            /\ task[i].res.scanned = 0
            /\ ~task[i].res.found
            /\ Returned(i)
            /\ Ret(i).status = <<"policy_not_found">>
            /\ Ret(i).policy_url = <<>>
            /\ Ret(i).text = <<>>

\* the URL the resolver returned for some input position holding r's site
IsResolvedURL(r) ==
    \E i \in DOMAIN task :
        sites[i] = r.site /\ task[i].res.found /\ task[i].res.url = r.policy_url

\* C8: every Result of the result set has one of exactly four status forms:
\* policy_not_found (URL empty, text empty), text_extraction_failed (URL the
\* resolved one, text empty), success (URL set, text set), error: <message>
\* (URL empty, text empty).
C8_FourStatusForms ==
    \A k \in 1..Len(results) :
        LET r == results[k] IN
        \/ r.status = <<"policy_not_found">> /\ r.policy_url = <<>> /\ r.text = <<>>
        \/ /\ r.status = <<"text_extraction_failed">>
           /\ r.policy_url # <<>> /\ IsResolvedURL(r) /\ r.text = <<>>
        \/ r.status = <<"success">> /\ r.policy_url # <<>> /\ r.text # <<>>
        \/ /\ Len(r.status) = 2 /\ r.status[1] = "error: "
           /\ r.policy_url = <<>> /\ r.text = <<>>

IsSuccess(r)    == r.status = <<"success">>
HasLongText(r)  == r.text # <<>> /\ TLen(r.text) >= MinChars
HasPolicyURL(r) == r.policy_url # <<>>

\* C9 as stated: for every Result, status success, a non-empty text of at
\* least 100 characters and a non-empty policy URL are equivalent.
C9_ThreeWayEquivalence ==
    \A k \in 1..Len(results) :
        /\ IsSuccess(results[k]) <=> HasLongText(results[k])
        /\ IsSuccess(results[k]) <=> HasPolicyURL(results[k])

\* C9 as amended: status success is equivalent to a non-empty text of at
\* least 100 characters and implies a non-empty policy URL; the policy URL is
\* non-empty exactly for success and for the too-short-text status
\* (text_extraction_failed, text_too_short in src/new_main.py).
C9_SuccessIffTextAndURLIffResolved ==
    \A k \in 1..Len(results) :
        /\ IsSuccess(results[k]) <=> HasLongText(results[k])
        /\ IsSuccess(results[k]) => HasPolicyURL(results[k])
        /\ HasPolicyURL(results[k]) <=>
              results[k].status \in {<<"success">>, <<"text_extraction_failed">>,
                                     <<"text_too_short">>}

\* the result set holds a success and a Result whose text was too short but
\* whose policy URL is set
C9_Witness ==
    /\ coord = "returned"
    /\ \E k \in 1..Len(results) : IsSuccess(results[k]) /\ HasLongText(results[k])
    /\ \E k \in 1..Len(results) :
          ~IsSuccess(results[k]) /\ HasPolicyURL(results[k]) /\ results[k].text = <<>>

\* C10: a post-processed text longer than 50,000 characters comes out as its
\* first 50,000 characters followed by "... [Content truncated]", of length
\* 50,000 plus the marker's; a text of at most 50,000 characters comes out
\* unchanged.
C10_TruncationLaw ==
    (xcall.fn = "extract" /\ xcall.done /\ xcall.ret.ok) =>
        IF TLen(xcall.cleaned) > MaxChars
        THEN /\ TLen(xcall.ret.v) = MaxChars + TLen(MarkerContentTruncated)
             /\ TPrefix(xcall.ret.v, MaxChars) = TPrefix(xcall.cleaned, MaxChars)
             /\ TSuffix(xcall.ret.v, TLen(MarkerContentTruncated)) = MarkerContentTruncated
        ELSE xcall.ret.v = xcall.cleaned

(***************************************************************************)
(* normalize_url alone: one call on a string drawn from bounded sets, and  *)
(* a second call on what the first returned.                               *)
(***************************************************************************)
MaxBody == 3

UrlHeads ==
    { <<>>, W_http, W_https,
      <<"H","T","T","P",":","/","/">>,
      <<"h","t","t","p",":","/">>,
      <<"t","t","p",":","/","/">>,
      <<" ">> \o W_https }

UrlBodies == UNION {[1..n -> {"a", ".", "/", "h"}] : n \in 0..MaxBody}

InitNormalize ==
    /\ impl \in Impls
    /\ BatchIdle
    /\ xcall = Idle
    /\ \E head \in UrlHeads, body \in UrlBodies :
          rcall = [fn |-> "normalize", url |-> head \o body, done |-> FALSE,
                   ret |-> <<>>, again |-> <<>>]

CallNormalize ==
    /\ rcall.fn = "normalize"
    /\ ~rcall.done
    /\ rcall' = [rcall EXCEPT !.done = TRUE,
                              !.ret = normalize_url(rcall.url),
                              !.again = normalize_url(normalize_url(rcall.url))]
    /\ UNCHANGED << impl, delay_range, max_workers, sites, task, collected,
                    results, successful_scrapes, sink, coord, coord_exc, xcall >>

SpecNormalize == InitNormalize /\ [][CallNormalize]_vars

Normalized == rcall.fn = "normalize" /\ rcall.done
HasScheme(u) ==
    \/ Len(u) >= 7 /\ SubSeq(u, 1, 7) = <<"h","t","t","p",":","/","/">>
    \/ Len(u) >= 8 /\ SubSeq(u, 1, 8) = <<"h","t","t","p","s",":","/","/">>

\* C11: normalize_url returns an input that starts with http:// or https://
\* unchanged, returns https:// followed by the input otherwise, and
\* normalizing its output again changes nothing.
C11_NormalizeIdempotent ==
    Normalized =>
        /\ HasScheme(rcall.url) => rcall.ret = rcall.url
        /\ ~HasScheme(rcall.url) =>
              rcall.ret = <<"h","t","t","p","s",":","/","/">> \o rcall.url
        /\ rcall.again = rcall.ret

\* an http:// input came back unchanged from both calls
C11_Witness ==
    /\ Normalized
    /\ rcall.url = W_http \o <<"a", ".", "a">>
    /\ rcall.ret = rcall.url
    /\ rcall.again = rcall.url

\* the edges a worker's position may take in one step
WorkerEdges ==
    { <<"queued", "sleep">>, <<"sleep", "derive">>, <<"derive", "resolve">>,
      <<"resolve", "done">>, <<"resolve", "extract">>, <<"extract", "done">>,
      <<"sleep", "handler">>, <<"derive", "handler">>, <<"handler", "done">>,
      <<"sleep", "raised">>, <<"derive", "raised">>, <<"handler", "raised">> }

\* a step of worker i that issues the GET of a policy page
IssuesPageGet(i) ==
    /\ Len(task'[i].reqs) = Len(task[i].reqs) + 1
    /\ task[i].pc = "extract"

\* worker i moves along the edges, fetches a page only from Extracting with
\* the URL the resolver returned for its site, and is frozen once terminal
StepsAlongEdges(i) ==
    /\ task'[i].pc # task[i].pc => <<task[i].pc, task'[i].pc>> \in WorkerEdges
    /\ IssuesPageGet(i) =>
          /\ task[i].res.found
          /\ task[i].res = Resolve(impl, sites[i], Web(sites[i]))
          /\ task'[i].reqs[Len(task'[i].reqs)] = Req("GET", task[i].res.url)
    /\ (task[i].pc = "done" /\ ~task[i].res.found) => task'[i].reqs = task[i].reqs
    /\ task[i].pc \in Terminal => task'[i] = task[i]

\* C12: each site worker moves only along Pending -> Resolving ->
\* {NotFound, Resolved} -> Extracting -> {TextTooShort, Success} or to
\* Errored; the policy page GET follows a URL resolved for the same site and
\* never NotFound; a worker that reached a terminal state has exactly one
\* Result, which never changes afterwards.
C12_WorkerStateMachine ==
    [][\A i \in DOMAIN task :
          /\ i \in DOMAIN task'
          /\ StepsAlongEdges(i)
          /\ task[i].pc \in Terminal => Len(task[i].ret) = 1]_vars

Extracted == xcall.fn = "extract" /\ xcall.done /\ GetOK(xcall.page.resp)

\* the running file's selector list and fallback tags
OwnSelectors    == IF impl = "main" THEN content_selectors ELSE selectors
OwnFallbackTags == IF impl = "main" THEN FallbackTagsMain ELSE FallbackTagsNew

\* the positions of the selectors that match at least one node of the page
MatchingSelectors ==
    {k \in 1..Len(OwnSelectors) : xcall.page.sel[OwnSelectors[k]] # <<>>}

\* C13: the first selector, in list order, that matches at least one node
\* decides the candidate, which is a longest text among that selector's
\* nodes whatever the later selectors match; the fallback collection is the
\* candidate only when no selector matched any node, not when the matched
\* nodes have empty text.
C13_FirstMatchingSelectorDecides ==
    Extracted =>
        IF MatchingSelectors # {}
        THEN LET first == CHOOSE k \in MatchingSelectors :
                              \A j \in MatchingSelectors : k <= j
                 nodes == xcall.page.sel[OwnSelectors[first]]
             IN \E n \in 1..Len(nodes) :
                   /\ xcall.content = nodes[n]
                   /\ \A q \in 1..Len(nodes) : TLen(nodes[q]) <= TLen(nodes[n])
        ELSE xcall.content = JoinNL(FallbackTexts(OwnFallbackTags, xcall.page.blocks))

\* the sink was invoked after every worker ended and was collected, with the
\* complete result set
SinkAfterAll ==
    /\ Len(sink) <= 1
    /\ Len(sink) = 1 =>
          /\ coord \notin {"start", "collect", "save"}
          /\ \A i \in 1..N : i \in DOMAIN task /\ task[i].pc \in Terminal
          /\ collected = 1..N
          /\ sink[1] = results
          /\ OnePerSite(sink[1])

\* C14: the output sink is invoked exactly once per batch run, only after
\* every site worker reached a terminal state and its Result was collected,
\* with the complete set of N results.
C14_SinkExactlyOnce ==
    /\ SinkAfterAll
    /\ Ended => Len(sink) = 1

\* the collected futures whose task returned a Result
CollectedReturned == {i \in collected : Returned(i)}

\* results holds the Result of every collected future that returned one,
\* each at a position of its own, and nothing else that a worker returned
NothingLostOrDuplicated ==
    /\ Len(results) <= Cardinality(collected)
    /\ \E f \in [CollectedReturned -> 1..Len(results)] :
          /\ \A a, b \in CollectedReturned : f[a] = f[b] => a = b
          /\ \A a \in CollectedReturned : results[f[a]] = Ret(a)
          /\ \A k \in 1..Len(results) :
                (\A a \in CollectedReturned : f[a] # k) =>
                    /\ results[k].status[1] = "exception: "
                    /\ \E j \in collected : ~Returned(j) /\ results[k].site = sites[j]

\* C15: at every moment at most max_workers site workers are active, there
\* is one worker task per input site, which works on that site and runs
\* once, and the result collection holds the Result of every collected
\* worker exactly once, whatever the order in which the workers complete.
C15_BoundedPoolSafeCollection ==
    /\ Cardinality(Running) <= max_workers
    /\ coord # "start" => DOMAIN task = 1..N
    /\ \A i \in DOMAIN task :
          /\ Len(task[i].ret) <= 1
          /\ Returned(i) => Len(task[i].ret) = 1 /\ Ret(i).site = sites[i]
          /\ i \in collected => task[i].pc \in Terminal
    /\ NothingLostOrDuplicated
    /\ coord \in {"save", "summary", "returned"} =>
          collected = 1..N /\ Len(results) = N

\* with one pool thread and two sites, the first site's Result is collected
\* while the second site's worker is running
C15_Witness ==
    /\ max_workers = 1
    /\ N = 2
    /\ coord = "collect"
    /\ collected = {1}
    /\ Returned(1)
    /\ results = <<Ret(1)>>
    /\ Running = {2}

\* a step of the worker of site i, whatever its position
WorkerStep(i) ==
    Sleep(i) \/ Derive(i) \/ ResolveSite(i) \/ ExtractSite(i) \/ Handler(i)

\* worker i issues requests only from Resolving or Extracting, positions it
\* reaches only through the end of its delay
DelayPrecedesRequests(i) ==
    /\ task'[i].reqs # task[i].reqs => task[i].pc \in {"resolve", "extract"}
    /\ (task'[i].pc = "extract" /\ task[i].pc # "extract") => task[i].pc = "resolve"
    /\ (task'[i].pc = "resolve" /\ task[i].pc # "resolve") => task[i].pc = "derive"
    /\ (task'[i].pc = "derive" /\ task[i].pc # "derive") => task[i].pc = "sleep"
    /\ task[i].pc \in {"queued", "sleep"} => task[i].reqs = <<>>

\* while a worker is delaying, every other running worker can take its step
DelayBlocksNobody ==
    \A i \in DOMAIN task :
        task[i].pc = "sleep" =>
            \A j \in DOMAIN task :
                (j # i /\ task[j].pc \in Active) => ENABLED WorkerStep(j)

\* C16: no GET or HEAD for a site is issued before that site's worker has
\* finished its delay, and while a worker is delaying every other running
\* worker can take its next step.
C16_DelayFirstAndNonBlocking ==
    /\ []DelayBlocksNobody
    /\ [][\A i \in DOMAIN task :
             i \in DOMAIN task' => DelayPrecedesRequests(i)]_vars

\* one worker is delaying while the other has issued its homepage GET and
\* is about to fetch the policy page
C16_Witness ==
    /\ N = 2
    /\ task # <<>>
    /\ task[1].pc = "extract"
    /\ task[1].reqs # <<>>
    /\ task[2].pc = "sleep"
    /\ task[2].reqs = <<>>

\* the response the site's web gives to the k-th request of worker i
ResponseTo(i, k) ==
    LET q == task[i].reqs[k]
        w == Web(sites[i])
    IN IF k = 1 THEN w.home
       ELSE IF q.m = "HEAD"
       THEN w.head[CHOOSE p \in AllPaths :
                       urljoin(normalize_url(sites[i]), p) = q.url]
       ELSE PageAt(w, q.url).resp

\* a fetch that failed: no response, or a response with an error status
FailedFetch(r) == r.err \/ r.status_code >= 400

\* the homepage GET comes first and once, the HEAD probes are of distinct
\* URLs, and the only other GET is the last request, of the resolved URL
NothingFetchedTwice(i) ==
    LET r == task[i].reqs IN
    /\ r # <<>> => r[1] = Req("GET", normalize_url(sites[i]))
    /\ \A k \in 2..Len(r) :
          \/ r[k].m = "HEAD" /\ \A j \in 2..(k - 1) : r[j] # r[k]
          \/ /\ r[k].m = "GET" /\ k = Len(r)
             /\ task[i].res.found /\ r[k].url = task[i].res.url

\* C17 as stated: nothing is fetched twice within one site's attempt, and
\* after a failed fetch no further request is issued for that site.
C17_NoRetryFailureTerminal ==
    \A i \in DOMAIN task :
        /\ NothingFetchedTwice(i)
        /\ \A k \in 1..(Len(task[i].reqs) - 1) : ~FailedFetch(ResponseTo(i, k))

\* C17 as amended: nothing is fetched twice within one site's attempt; a
\* failed homepage GET or policy page GET is the site's last request; a
\* failed HEAD probe is skipped, the request after it being the HEAD probe
\* of another candidate path.
C17_NoRetryGetFailureTerminal ==
    \A i \in DOMAIN task :
        /\ NothingFetchedTwice(i)
        /\ \A k \in 1..(Len(task[i].reqs) - 1) :
              FailedFetch(ResponseTo(i, k)) =>
                  /\ task[i].reqs[k].m = "HEAD"
                  /\ task[i].reqs[k + 1].m = "HEAD"
                  /\ task[i].reqs[k + 1].url # task[i].reqs[k].url

\* a worker whose first two probes failed in transport went on probing, and
\* ended at the failed GET of the page it resolved
C17_Witness ==
    \E i \in DOMAIN task :
        /\ Returned(i)
        /\ Len(task[i].reqs) = 5
        /\ ResponseTo(i, 2) = TransportError
        /\ ResponseTo(i, 3) = TransportError
        /\ task[i].reqs[5].m = "GET"
        /\ FailedFetch(ResponseTo(i, 5))
        /\ Ret(i).text = <<>>

\* the number of Results of the result set whose status is success
SuccessCount == Cardinality({k \in 1..Len(results) : IsSuccess(results[k])})

\* C18: a batch run of src/main.py over N >= 0 sites ends with the summary
\* produced without fault: the successful count is the number of success
\* Results, the failed count N - successful is not negative, and the rate
\* successful / N is defined.
C18_SummaryConsistent ==
    (impl = "main" /\ Ended) =>
        /\ coord = "returned"
        /\ successful_scrapes = SuccessCount
        /\ N - successful_scrapes >= 0
        /\ N # 0

\* what one worker alone makes of a site: resolve, then extract if resolved
Sequential(i, site) ==
    LET res  == Resolve(i, site, Web(site))
        text == IF res.found /\ res.url # <<>>
                THEN Extract(i, PageAt(Web(site), res.url)) ELSE None
    IN WorkerResult(i, Company(site), site, res, text)

\* the Result of input position i as a function of the site, the site's web
\* and the faults of that position's own worker
Outcome(i) ==
    IF task[i].pc = "raised"
    THEN Result(Company(sites[i]), sites[i], <<>>, <<>>, <<"exception: ", task[i].exc[1]>>)
    ELSE IF task[i].exc # <<>>
    THEN Result(Company(sites[i]), sites[i], <<>>, <<>>, <<"error: ", task[i].exc[1]>>)
    ELSE Sequential(impl, sites[i])

\* C19: for a fixed input list and fixed responses, the result set a batch
\* run returns holds, in some order, the Result each site yields on its own:
\* its content does not depend on how the workers interleave or on the order
\* in which they complete.
C19_ResultsIndependentOfScheduling ==
    coord = "returned" =>
        /\ Len(results) = N
        /\ \E p \in [1..N -> 1..N] :
              /\ \A a, b \in 1..N : p[a] = p[b] => a = b
              /\ \A a \in 1..N : results[p[a]] = Outcome(a)

\* a run over two different sites returned their Results in the reverse of
\* the input order, the second worker having overtaken the first
C19_Witness ==
    /\ coord = "returned"
    /\ N = 2
    /\ sites[1] # sites[2]
    /\ results = <<Outcome(2), Outcome(1)>>
    /\ task[1].exc = <<>>
    /\ task[2].exc = <<>>

(***************************************************************************)
(* The resolver over a reordered pattern list: one call with the file's    *)
(* list and one with the list permuted, on the same page.                  *)
(***************************************************************************)
PatternCount(i) == Len(privacy_patterns(i))

\* the orders tried: the list as written, every exchange of two patterns,
\* every rotation and the reversal
PatternOrders(i) ==
    LET n == PatternCount(i) IN
    { [k \in 1..n |-> IF k = a THEN b ELSE IF k = b THEN a ELSE k] : a, b \in 1..n }
    \cup { [k \in 1..n |-> ((k + r - 1) % n) + 1] : r \in 0..(n - 1) }
    \cup { [k \in 1..n |-> n + 1 - k] }

Permute(pats, order) == [k \in 1..Len(pats) |-> pats[order[k]]]

OwnPaths(i) == IF i = "main" THEN common_paths ELSE fallback_paths

InitPatterns ==
    /\ impl \in Impls
    /\ BatchIdle
    /\ xcall = Idle
    /\ \E order \in PatternOrders(impl),
          anchors \in UNION {[1..n -> AnchorPool] : n \in 0..MaxAnchors} :
          rcall = [fn |-> "reorder", site |-> site_a, done |-> FALSE,
                   order |-> order,
                   w |-> [home |-> Resp(200), anchors |-> anchors,
                          head |-> AllMissing, pages |-> <<>>],
                   ret |-> NotFound(<<>>, 0), reordered |-> NotFound(<<>>, 0)]

CallPatterns ==
    /\ rcall.fn = "reorder"
    /\ ~rcall.done
    /\ rcall' = [rcall EXCEPT
                    !.done = TRUE,
                    !.ret = Resolve(impl, rcall.site, rcall.w),
                    !.reordered = ResolveWith(Permute(privacy_patterns(impl), rcall.order),
                                              OwnPaths(impl), rcall.site, rcall.w)]
    /\ UNCHANGED << impl, delay_range, max_workers, sites, task, collected,
                    results, successful_scrapes, sink, coord, coord_exc, xcall >>

SpecPatterns == InitPatterns /\ [][CallPatterns]_vars

Reordered == rcall.fn = "reorder" /\ rcall.done

\* C20: with the pattern list in any other order the resolver returns, for
\* the same page, the same anchor and hence the same URL.
C20_PatternOrderIrrelevant ==
    Reordered =>
        /\ rcall.reordered.found = rcall.ret.found
        /\ rcall.reordered.url = rcall.ret.url
        /\ rcall.reordered.scanned = rcall.ret.scanned

\* the list was reversed; the first anchor matches a pattern that comes
\* later in the list than the pattern the second anchor matches, and the
\* first anchor was returned by both calls
C20_Witness ==
    /\ Reordered
    /\ rcall.order = [k \in 1..PatternCount(impl) |-> PatternCount(impl) + 1 - k]
    /\ rcall.w.anchors = <<A_priv, A_text>>
    /\ rcall.ret.found
    /\ rcall.ret.url = urljoin(normalize_url(site_a), A_priv.href)
    /\ rcall.reordered.url = rcall.ret.url

====
